---- MODULE Spec2Model ----
(***************************************************************************)
(* State-machine model of bayesopt/bo.py: class BayesOpt, its constructor  *)
(* and run_optim.  Every call that leaves the class (objective function,   *)
(* acquisition optimizer, GPR.append_data, the tqdm bar, the terminate     *)
(* function) is a step of its own, because each of them may raise and      *)
(* run_optim has no try/except: what the object holds when the exception   *)
(* leaves run_optim is what the statements before the call have written.   *)
(*                                                                         *)
(* Observed values are integers in units of 0.1 (the docstring's threshold *)
(* 1e-1 is Threshold == 1).  Python's None is the empty tuple, a value v   *)
(* that may be None is the 1-tuple <<v>>.                                  *)
(***************************************************************************)
EXTENDS Integers, Sequences, FiniteSets, TLC

\* ---------------------------------------------------------------- bounds
\* largest max_iter a run is started with
MaxIter == 2
\* largest total number of History entries over all runs
MaxHist == 2

\* `value_history.min()<1e-1` of the docstring's terminate_function
Threshold == 1

\* ---------------------------------------------------------------- values
None == <<>>
Some(v) == <<v>>

\* observed values of the objective function (units of 0.1)
Values == {0, 1, 2}
\* locations the acquisition optimizer can propose
Locs == {"p", "q"}
\* initial_input after transform_data: one row per sample
InitialInputs == {<<"p">>, <<"p", "q">>}
\* initial_Y as the caller passes it: None, or an array with shape[0] samples
SuppliedY == {None} \cup {Some(y) : y \in UNION {[1..n -> Values] : n \in 0..3}}
\* terminate_function: None, an arbitrary predicate, the docstring's example
TerminateFunctions == {"None", "any", "threshold"}

NoLoc == "-"
NoValue == 0 - 1

\* no objective call made in the iteration yet
NoArg == <<>>
\* kernel, alpha, acq and acq_optimizer before __init__ has assigned them
NoConfig == [kernel |-> "-", alpha |-> "-", acq |-> "-", acq_optimizer |-> "-"]

\* the surrogate before GPR(...) has returned
NoGpr == [X_train |-> <<>>, Y_train |-> <<>>]

RECURSIVE MinOf(_)
MinOf(s) == IF Len(s) = 1 THEN s[1]
            ELSE LET m == MinOf(Tail(s)) IN IF s[1] < m THEN s[1] ELSE m

RECURSIVE MaxOf(_)
MaxOf(s) == IF Len(s) = 1 THEN s[1]
            ELSE LET m == MaxOf(Tail(s)) IN IF s[1] > m THEN s[1] ELSE m

Max(a, b) == IF a > b THEN a ELSE b
Min(a, b) == IF a < b THEN a ELSE b

VARIABLES
    \* ---- the object's attributes
    attrs,              \* names of the attributes assigned on self so far
    initial_X,          \* self.__initial_X
    function_unpack,    \* self.__function_unpack
    initial_Y,          \* self.__initial_Y
    maximize,           \* self.__maximize
    gpr,                \* training set held by self.__gpr: <<location, value>> rows
    X_history,          \* self.__X_history
    Y_history,          \* self.__Y_history
    best_value,         \* self.__best_value (None or Some)
    best_params,        \* self.__best_params (None or Some)
    config,             \* self.__kernel, __alpha, __acq, __acq_optimizer
    \* ---- run_optim's frame
    pc,                 \* where control is
    max_iter,           \* argument of the current/last run
    terminate_function, \* argument of the current/last run
    i,                  \* loop index
    loc,                \* location returned by the acquisition optimizer
    Y_obs,              \* value returned by the objective function
    \* ---- history variables of the verification
    given_Y,            \* __init__'s argument initial_Y, while its call is the last one
    outcome,            \* how the last call ended
    raisedBy,           \* the call whose exception left the last call
    base,               \* len(History) when the current/last run started
    snap,               \* object state when the current iteration started
    completed,          \* loop bodies run to their end in the current/last run
    firstTrue,          \* index at which the predicate returned true (None/Some)
    nAcq,               \* acquisition optimizer calls of the current/last run
    nObj,               \* objective function calls of the current/last call
    nTerm,              \* terminate_function calls of the current/last run
    termArgs,           \* arguments of the last terminate_function call
    ctorCalls,          \* arguments of __init__'s objective calls, while its call is the last one
    acqArgs,            \* arguments of the run's last acquisition optimizer call
    objArg,             \* arguments of the iteration's objective call
    nBar,               \* progress notifications of the current/last run
    nBest               \* BestState replacements of the current iteration

self == <<attrs, initial_X, function_unpack, initial_Y, maximize, gpr,
          X_history, Y_history, best_value, best_params, config>>
frame == <<pc, max_iter, terminate_function, i, loc, Y_obs>>
ghost == <<given_Y, outcome, raisedBy, base, snap, completed, firstTrue,
           nAcq, nObj, nTerm, termArgs, ctorCalls, acqArgs, objArg, nBar, nBest>>
vars == <<self, frame, ghost>>

\* History, BestState and the surrogate's training set, as one value
ObjectState == <<X_history, Y_history, best_value, best_params, gpr>>

Init ==
    /\ attrs = {}
    /\ initial_X = <<>>
    /\ function_unpack = TRUE
    /\ initial_Y = <<>>
    /\ maximize = FALSE
    /\ gpr = NoGpr
    /\ X_history = <<>>
    /\ Y_history = <<>>
    /\ best_value = None
    /\ best_params = None
    /\ pc = "new"
    /\ max_iter = 0
    /\ terminate_function = "None"
    /\ i = 0
    /\ loc = NoLoc
    /\ Y_obs = NoValue
    /\ given_Y = None
    /\ outcome = "none"
    /\ raisedBy = "none"
    /\ base = 0
    /\ snap = <<>>
    /\ completed = 0
    /\ firstTrue = None
    /\ nAcq = 0
    /\ nObj = 0
    /\ nTerm = 0
    /\ termArgs = <<>>
    /\ config = NoConfig
    /\ ctorCalls = <<>>
    /\ acqArgs = <<>>
    /\ objArg = NoArg
    /\ nBar = 0
    /\ nBest = 0

\* ------------------------------------------------------------ constructor
\* GaussianProcess.utils.transform_data on a 1-D array of n values: shape
\* (n,) becomes (n, 1), one row per sample.  (initial_input is taken in its
\* canonical 2-D form, which transform_data returns as it is.)
transform_data(a) == [k \in DOMAIN a |-> <<a[k]>>]

\* GaussianProcess.utils.data_checker: the sample counts of X and Y agree
data_checker(X, Y) == Len(X) = Len(Y)

\* attributes assigned before __calculate_initialY is called (lines 53-55)
AttrsBeforeInitialY == {"objectivefunction", "initial_X", "function_unpack"}
\* attributes assigned before GPR(...) is called (lines 53-64)
AttrsBeforeGpr == AttrsBeforeInitialY \cup {"initial_Y", "maximize", "kernel", "alpha"}
\* attributes of a constructed object (lines 53-78)
AttrsAll == AttrsBeforeGpr \cup {"gpr", "X_history", "Y_history", "best_value",
                                 "best_params", "acq", "acq_optimizer"}

\* __calculate_initialY, initial_Y given: the size test of line 91
SizeMismatch(Y, X) == Len(Y) # Len(X)

\* how the objective function is called at the location x: `f(*x.T)` when
\* function_input_unpacking is set, `f(np.atleast_2d(x))` otherwise
\* (lines 84-88 in __calculate_initialY)
InitialObjectiveArgs(unpack, x) ==
    IF unpack THEN <<"unpacked", x>> ELSE <<"packed", x>>

\* mutant: the objective function is called at the initial locations also
\* when initial_Y is given
InitialCalls_Always(input, Y, unpack) ==
    [k \in DOMAIN input |-> InitialObjectiveArgs(unpack, input[k])]

\* __calculate_initialY: the objective calls it makes, in order (lines 81-93)
InitialCalls(input, Y, unpack) ==
    IF Y = None
    THEN [k \in DOMAIN input |-> InitialObjectiveArgs(unpack, input[k])]
    ELSE <<>>

\* lines 61-64 and 77-78, kernel=None and alpha left at their defaults
Configuration ==
    [kernel |-> "GaussianRBFKernel(h=1.0, a=1.0)", alpha |-> "1e-6",
     acq |-> "acq", acq_optimizer |-> "acq_optim"]

\* __init__ returns.  ys are the values the objective function returns at the
\* initial locations when initial_Y is None.
Construct(input, Y, maxi, unpack, ys) ==
    /\ pc = "new"
    /\ IF Y = None
       THEN /\ initial_Y' = [k \in DOMAIN ys |-> <<ys[k]>>]
            /\ nObj' = Len(input)
       ELSE /\ ~SizeMismatch(Y[1], input)
            /\ initial_Y' = transform_data(Y[1])
            /\ nObj' = 0
    /\ data_checker(input, initial_Y')
    /\ initial_X' = input
    /\ function_unpack' = unpack
    /\ maximize' = maxi
    /\ gpr' = [X_train |-> initial_X', Y_train |-> initial_Y']
    /\ X_history' = <<>>
    /\ Y_history' = <<>>
    /\ best_value' = None
    /\ best_params' = None
    /\ attrs' = AttrsAll
    /\ pc' = "idle"
    /\ given_Y' = Y
    /\ outcome' = "constructed"
    /\ config' = Configuration
    /\ ctorCalls' = InitialCalls(input, Y, unpack)
    /\ UNCHANGED <<max_iter, terminate_function, i, loc, Y_obs>>
    /\ UNCHANGED <<raisedBy, base, snap, completed, firstTrue, nAcq, nTerm, termArgs>>
    /\ UNCHANGED <<acqArgs, objArg, nBar, nBest>>

\* __init__ leaves by an exception raised at line `by`, after `done` objective
\* calls, with the attributes `have` assigned
ConstructRaises(input, Y, unpack, by, done, have) ==
    /\ pc = "new"
    /\ initial_X' = input
    /\ function_unpack' = unpack
    /\ attrs' = have
    /\ pc' = "ctor_failed"
    /\ given_Y' = Y
    /\ outcome' = "raised"
    /\ raisedBy' = by
    /\ nObj' = done
    /\ ctorCalls' = SubSeq(InitialCalls(input, Y, unpack), 1, done)
    /\ UNCHANGED <<initial_Y, maximize, gpr, X_history, Y_history, best_value, best_params,
                   config>>
    /\ UNCHANGED <<max_iter, terminate_function, i, loc, Y_obs>>
    /\ UNCHANGED <<base, snap, completed, firstTrue, nAcq, nTerm, termArgs>>
    /\ UNCHANGED <<acqArgs, objArg, nBar, nBest>>

\* mutant: the size test is made after the surrogate has been built
ConstructValueError_Late(input, Y, unpack) ==
    /\ Y # None
    /\ SizeMismatch(Y[1], input)
    /\ ConstructRaises(input, Y, unpack, "ValueError", 0, AttrsBeforeGpr \cup {"gpr"})

\* line 92: raise ValueError('Y must be the same size ...')
ConstructValueError(input, Y, unpack) ==
    /\ Y # None
    /\ SizeMismatch(Y[1], input)
    /\ ConstructRaises(input, Y, unpack, "ValueError", 0, AttrsBeforeInitialY)

\* lines 83-88: the objective function raises at the k-th initial location
ConstructObjectiveRaises(input, unpack, k) ==
    /\ k \in 1..Len(input)
    /\ ConstructRaises(input, None, unpack, "objective", k, AttrsBeforeInitialY)

\* -------------------------------------------------------------- run_optim
\* control leaves run_optim: by the end of range(max_iter) ("count"), by the
\* break of line 138 ("predicate") or by an exception ("raised", from `by`);
\* the frame's locals are gone
Return(how, by) ==
    /\ pc' = "idle"
    /\ outcome' = how
    /\ raisedBy' = by
    /\ loc' = NoLoc
    /\ Y_obs' = NoValue
    /\ objArg' = NoArg
    /\ nBest' = 0
    /\ UNCHANGED i

\* mutant: the loop runs one index too far (range(max_iter + 1))
ForRange_OneMore(k, m) ==
    IF k <= m
    THEN /\ pc' = "acq_optimizer"
         /\ i' = k
         /\ outcome' = "running"
         /\ raisedBy' = "none"
         /\ loc' = NoLoc
         /\ Y_obs' = NoValue
         /\ objArg' = NoArg
         /\ nBest' = 0
         /\ snap' = ObjectState
    ELSE /\ Return("count", "none")
         /\ UNCHANGED snap

\* line 113, `for i in range(max_iter)`, about to take index k: the body
\* starts with the acquisition optimizer, or the loop (and the call) ends
ForRange(k, m) ==
    IF k < m
    THEN /\ pc' = "acq_optimizer"
         /\ i' = k
         /\ outcome' = "running"
         /\ raisedBy' = "none"
         /\ loc' = NoLoc
         /\ Y_obs' = NoValue
         /\ objArg' = NoArg
         /\ nBest' = 0
         /\ snap' = ObjectState
    ELSE /\ Return("count", "none")
         /\ UNCHANGED snap

\* run_optim(max_iter = m, terminate_function = tf) is called (lines 95-113)
RunOptim(m, tf) ==
    /\ pc = "idle"
    /\ Len(Y_history) + Max(m, 0) <= MaxHist
    /\ max_iter' = m
    /\ terminate_function' = tf
    /\ base' = Len(Y_history)
    /\ completed' = 0
    /\ firstTrue' = None
    /\ nAcq' = 0
    /\ nObj' = 0
    /\ nTerm' = 0
    /\ termArgs' = <<>>
    /\ given_Y' = None
    /\ ctorCalls' = <<>>
    /\ acqArgs' = <<>>
    /\ nBar' = 0
    /\ ForRange(0, m)
    /\ UNCHANGED self

\* mutant: the optimizer is handed the number of trials, not the loop index
AcqCall_TrialCount == <<gpr, config.acq, Len(Y_history)>>

\* mutant: the optimizer is handed the surrogate as it was constructed
AcqCall_StaleSurrogate ==
    <<[X_train |-> initial_X, Y_train |-> initial_Y], config.acq, i>>

\* line 114: the keyword arguments gpr=self.__gpr, acq=self.__acq, it=i
AcqCall == <<gpr, config.acq, i>>

\* mutant: the proposed location is put into the history at once, before the
\* objective function has been evaluated at it
AcqOptimizer_RecordsEarly(l) ==
    /\ pc = "acq_optimizer"
    /\ loc' = l
    /\ X_history' = Append(X_history, l)
    /\ nAcq' = nAcq + 1
    /\ pc' = "objective"
    /\ UNCHANGED <<attrs, initial_X, function_unpack, initial_Y, maximize, config, gpr,
                   Y_history, best_value, best_params>>
    /\ UNCHANGED <<max_iter, terminate_function, i, Y_obs>>
    /\ acqArgs' = AcqCall
    /\ UNCHANGED <<given_Y, outcome, raisedBy, base, snap, completed, firstTrue,
                   nObj, nTerm, termArgs>>
    /\ UNCHANGED <<ctorCalls, objArg, nBar, nBest>>

\* line 114: the acquisition optimizer returns the location l
AcqOptimizer(l) ==
    /\ pc = "acq_optimizer"
    /\ loc' = l
    /\ nAcq' = nAcq + 1
    /\ pc' = "objective"
    /\ UNCHANGED <<self, max_iter, terminate_function, i, Y_obs>>
    /\ acqArgs' = AcqCall
    /\ UNCHANGED <<given_Y, outcome, raisedBy, base, snap, completed, firstTrue,
                   nObj, nTerm, termArgs>>
    /\ UNCHANGED <<ctorCalls, objArg, nBar, nBest>>

\* line 114: the acquisition optimizer raises
AcqOptimizerRaises ==
    /\ pc = "acq_optimizer"
    /\ nAcq' = nAcq + 1
    /\ acqArgs' = AcqCall
    /\ Return("raised", "acq_optimizer")
    /\ UNCHANGED <<self, max_iter, terminate_function>>
    /\ UNCHANGED <<given_Y, base, snap, completed, firstTrue, nObj, nTerm, termArgs>>
    /\ UNCHANGED <<ctorCalls, nBar>>

\* mutant: the loop always unpacks, whatever the flag says
ObjectiveArgs_AlwaysUnpack(unpack, x) ==
    <<"unpacked", x>>

\* lines 115-118: `f(*loc.T)` when function_input_unpacking is set,
\* `f(np.atleast_2d(loc))` otherwise
ObjectiveArgs(unpack, x) ==
    IF unpack THEN <<"unpacked", x>> ELSE <<"packed", x>>

\* lines 115-118: the objective function, called at loc, returns y
Objective(y) ==
    /\ pc = "objective"
    /\ Y_obs' = y
    /\ nObj' = nObj + 1
    /\ pc' = "append_data"
    /\ UNCHANGED <<self, max_iter, terminate_function, i, loc>>
    /\ objArg' = ObjectiveArgs(function_unpack, loc)
    /\ UNCHANGED <<given_Y, outcome, raisedBy, base, snap, completed, firstTrue,
                   nAcq, nTerm, termArgs>>
    /\ UNCHANGED <<ctorCalls, acqArgs, nBar, nBest>>

\* mutant: a failed objective call is made again
ObjectiveRaises_Retry ==
    /\ pc = "objective"
    /\ nObj' = nObj + 1
    /\ UNCHANGED <<self, frame>>
    /\ UNCHANGED <<given_Y, outcome, raisedBy, base, snap, completed, firstTrue,
                   nAcq, nTerm, termArgs>>
    /\ UNCHANGED <<ctorCalls, acqArgs, objArg, nBar, nBest>>

\* lines 115-118: the objective function raises
ObjectiveRaises ==
    /\ pc = "objective"
    /\ nObj' = nObj + 1
    /\ Return("raised", "objective")
    /\ UNCHANGED <<self, max_iter, terminate_function>>
    /\ UNCHANGED <<given_Y, base, snap, completed, firstTrue, nAcq, nTerm, termArgs>>
    /\ UNCHANGED <<ctorCalls, acqArgs, nBar>>

\* GPR.append_data(x, y): one more row in the training set
append_data(g, x, y) ==
    [X_train |-> Append(g.X_train, x), Y_train |-> Append(g.Y_train, <<y>>)]

\* mutant: the call of line 119 is missing
GprAppendData_Skipped ==
    /\ pc = "append_data"
    /\ pc' = "history"
    /\ UNCHANGED <<self, max_iter, terminate_function, i, loc, Y_obs>>
    /\ UNCHANGED ghost

\* mutant: the surrogate grows the array it was constructed from, which is
\* self.__initial_X
GprAppendData_AliasesInitial ==
    /\ pc = "append_data"
    /\ gpr' = append_data(gpr, loc, Y_obs)
    /\ initial_X' = gpr'.X_train
    /\ pc' = "history"
    /\ UNCHANGED <<attrs, function_unpack, initial_Y, maximize, config,
                   X_history, Y_history, best_value, best_params>>
    /\ UNCHANGED <<max_iter, terminate_function, i, loc, Y_obs>>
    /\ UNCHANGED ghost

\* line 119: self.__gpr.append_data(np.atleast_2d(loc), Y_obs) returns
GprAppendData ==
    /\ pc = "append_data"
    /\ gpr' = append_data(gpr, loc, Y_obs)
    /\ pc' = "history"
    /\ UNCHANGED <<attrs, initial_X, function_unpack, initial_Y, maximize, config,
                   X_history, Y_history, best_value, best_params>>
    /\ UNCHANGED <<max_iter, terminate_function, i, loc, Y_obs>>
    /\ UNCHANGED ghost

\* line 119: append_data raises; the surrogate keeps the training set it had
GprAppendDataRaises ==
    /\ pc = "append_data"
    /\ Return("raised", "append_data")
    /\ UNCHANGED <<self, max_iter, terminate_function>>
    /\ UNCHANGED <<given_Y, base, snap, completed, firstTrue, nAcq, nObj, nTerm, termArgs>>
    /\ UNCHANGED <<ctorCalls, acqArgs, nBar>>

\* mutant: the observation is put into the history lists twice
HistoryAppend_Twice ==
    /\ pc = "history"
    /\ X_history' = Append(Append(X_history, loc), loc)
    /\ Y_history' = Append(Append(Y_history, Y_obs), Y_obs)
    /\ pc' = "best"
    /\ UNCHANGED <<attrs, initial_X, function_unpack, initial_Y, maximize, config, gpr,
                   best_value, best_params>>
    /\ UNCHANGED <<max_iter, terminate_function, i, loc, Y_obs>>
    /\ UNCHANGED ghost

\* mutant: the history lists grow at the front
HistoryAppend_Front ==
    /\ pc = "history"
    /\ X_history' = <<loc>> \o X_history
    /\ Y_history' = <<Y_obs>> \o Y_history
    /\ pc' = "best"
    /\ UNCHANGED <<attrs, initial_X, function_unpack, initial_Y, maximize, config, gpr,
                   best_value, best_params>>
    /\ UNCHANGED <<max_iter, terminate_function, i, loc, Y_obs>>
    /\ UNCHANGED ghost

\* lines 120-121: the two appends to the history lists
HistoryAppend ==
    /\ pc = "history"
    /\ X_history' = Append(X_history, loc)
    /\ Y_history' = Append(Y_history, Y_obs)
    /\ pc' = "best"
    /\ UNCHANGED <<attrs, initial_X, function_unpack, initial_Y, maximize, config, gpr,
                   best_value, best_params>>
    /\ UNCHANGED <<max_iter, terminate_function, i, loc, Y_obs>>
    /\ UNCHANGED ghost

\* mutant: the direction flag is ignored, the smaller value always wins
Improves_AlwaysMinimize(y, best, maxi) ==
    best = None \/ y < best[1]

\* mutant: the latest observation always replaces the best
Improves_Latest(y, best, maxi) ==
    TRUE

\* mutant: the comparisons are not strict (>=, <=)
Improves_NonStrict(y, best, maxi) ==
    IF maxi THEN best = None \/ y >= best[1]
            ELSE best = None \/ y <= best[1]

\* the conditions of lines 124 and 128
Improves(y, best, maxi) ==
    IF maxi THEN best = None \/ y > best[1]
            ELSE best = None \/ y < best[1]

\* mutant: a better observation replaces best_value but not best_params
UpdateBest_ValueOnly ==
    /\ pc = "best"
    /\ IF Improves(Y_obs, best_value, maximize)
       THEN /\ best_value' = Some(Y_obs)
            /\ best_params' = IF best_params = None THEN Some(loc) ELSE best_params
            /\ nBest' = nBest + 1
       ELSE UNCHANGED <<best_value, best_params, nBest>>
    /\ pc' = "bar"
    /\ UNCHANGED <<attrs, initial_X, function_unpack, initial_Y, maximize, config, gpr,
                   X_history, Y_history>>
    /\ UNCHANGED <<max_iter, terminate_function, i, loc, Y_obs>>
    /\ UNCHANGED <<given_Y, outcome, raisedBy, base, snap, completed, firstTrue,
                   nAcq, nObj, nTerm, termArgs, ctorCalls, acqArgs, objArg, nBar>>

\* lines 123-130: the best-so-far update
UpdateBest ==
    /\ pc = "best"
    /\ IF Improves(Y_obs, best_value, maximize)
       THEN /\ best_value' = Some(Y_obs)
            /\ best_params' = Some(loc)
            /\ nBest' = nBest + 1
       ELSE UNCHANGED <<best_value, best_params, nBest>>
    /\ pc' = "bar"
    /\ UNCHANGED <<attrs, initial_X, function_unpack, initial_Y, maximize, config, gpr,
                   X_history, Y_history>>
    /\ UNCHANGED <<max_iter, terminate_function, i, loc, Y_obs>>
    /\ UNCHANGED <<given_Y, outcome, raisedBy, base, snap, completed, firstTrue,
                   nAcq, nObj, nTerm, termArgs, ctorCalls, acqArgs, objArg, nBar>>

\* lines 132-135: the progress bar is told about the iteration
ProgressBar ==
    /\ pc = "bar"
    /\ nBar' = nBar + 1
    /\ pc' = "terminate"
    /\ UNCHANGED <<self, max_iter, terminate_function, i, loc, Y_obs>>
    /\ UNCHANGED <<given_Y, outcome, raisedBy, base, snap, completed, firstTrue,
                   nAcq, nObj, nTerm, termArgs, ctorCalls, acqArgs, objArg, nBest>>

\* lines 133-135: a call on the bar raises; nothing catches it
ProgressBarRaises ==
    /\ pc = "bar"
    /\ nBar' = nBar + 1
    /\ Return("raised", "bar")
    /\ UNCHANGED <<self, max_iter, terminate_function>>
    /\ UNCHANGED <<given_Y, base, snap, completed, firstTrue, nAcq, nObj, nTerm, termArgs>>
    /\ UNCHANGED <<ctorCalls, acqArgs>>

\* mutant: the predicate looks at the latest value only
ThresholdPredicate_LastValue(it, param_history, value_history) ==
    value_history[Len(value_history)] < Threshold

\* the docstring's example (lines 104-108): value_history.min() < 1e-1
ThresholdPredicate(it, param_history, value_history) ==
    MinOf(value_history) < Threshold

\* line 136, terminate_function is None: the body ends, the loop goes on
NoTerminateFunction ==
    /\ pc = "terminate"
    /\ terminate_function = "None"
    /\ completed' = completed + 1
    /\ ForRange(i + 1, max_iter)
    /\ UNCHANGED <<self, max_iter, terminate_function>>
    /\ UNCHANGED <<given_Y, base, firstTrue, nAcq, nObj, nTerm, termArgs>>
    /\ UNCHANGED <<ctorCalls, acqArgs, nBar>>

\* mutant: the break of line 138 is missing
Break_Missing(b) ==
    ForRange(i + 1, max_iter)

\* lines 136-138: leave the loop when the predicate returned true
Break(b) ==
    IF b
    THEN /\ Return("predicate", "none")
         /\ UNCHANGED snap
    ELSE ForRange(i + 1, max_iter)

\* line 136: terminate_function(i, self.__X_history, self.__Y_history)
\* returns b; lines 137-138 break when it is true
TerminateFunction(b) ==
    /\ pc = "terminate"
    /\ terminate_function # "None"
    /\ termArgs' = <<i, X_history, Y_history>>
    /\ terminate_function = "threshold" =>
           b = ThresholdPredicate(termArgs'[1], termArgs'[2], termArgs'[3])
    /\ nTerm' = nTerm + 1
    /\ completed' = completed + 1
    /\ firstTrue' = IF b /\ firstTrue = None THEN Some(i) ELSE firstTrue
    /\ Break(b)
    /\ UNCHANGED <<self, max_iter, terminate_function>>
    /\ UNCHANGED <<given_Y, base, nAcq, nObj>>
    /\ UNCHANGED <<ctorCalls, acqArgs, nBar>>

\* line 136: terminate_function raises
TerminateFunctionRaises ==
    /\ pc = "terminate"
    /\ terminate_function = "any"
    /\ termArgs' = <<i, X_history, Y_history>>
    /\ nTerm' = nTerm + 1
    /\ Return("raised", "terminate_function")
    /\ UNCHANGED <<self, max_iter, terminate_function>>
    /\ UNCHANGED <<given_Y, base, snap, completed, firstTrue, nAcq, nObj>>
    /\ UNCHANGED <<ctorCalls, acqArgs, nBar>>

Next ==
    \/ /\ pc = "new"
       /\ \E input \in InitialInputs, Y \in SuppliedY, maxi \in BOOLEAN,
             unpack \in BOOLEAN :
             \E ys \in [1..Len(input) -> Values] :
                Construct(input, Y, maxi, unpack, ys)
    \/ /\ pc = "new"
       /\ \E input \in InitialInputs, Y \in SuppliedY, unpack \in BOOLEAN :
             ConstructValueError(input, Y, unpack)
    \/ /\ pc = "new"
       /\ \E input \in InitialInputs, unpack \in BOOLEAN, k \in 1..2 :
             ConstructObjectiveRaises(input, unpack, k)
    \/ \E m \in (0 - 1)..MaxIter, tf \in TerminateFunctions : RunOptim(m, tf)
    \/ \E l \in Locs : AcqOptimizer(l)
    \/ AcqOptimizerRaises
    \/ \E y \in Values : Objective(y)
    \/ ObjectiveRaises
    \/ GprAppendData
    \/ GprAppendDataRaises
    \/ HistoryAppend
    \/ UpdateBest
    \/ ProgressBar
    \/ ProgressBarRaises
    \/ NoTerminateFunction
    \/ \E b \in BOOLEAN : TerminateFunction(b)
    \/ TerminateFunctionRaises

Spec == Init /\ [][Next]_vars

\* line 136 hands the predicate the lists self.__X_history and
\* self.__Y_history themselves, not copies: a predicate that assigns to its
\* value_history argument (value_history[-1] = v) changes self.__Y_history,
\* then returns b; lines 137-138 break when b is true
TerminateFunctionMutates(b, v) ==
    /\ pc = "terminate"
    /\ terminate_function = "any"
    /\ termArgs' = <<i, X_history, Y_history>>
    /\ v # Y_history[Len(Y_history)]
    /\ Y_history' = [Y_history EXCEPT ![Len(Y_history)] = v]
    /\ nTerm' = nTerm + 1
    /\ completed' = completed + 1
    /\ firstTrue' = IF b /\ firstTrue = None THEN Some(i) ELSE firstTrue
    /\ Break(b)
    /\ UNCHANGED <<attrs, initial_X, function_unpack, initial_Y, maximize, config, gpr,
                   X_history, best_value, best_params>>
    /\ UNCHANGED <<max_iter, terminate_function>>
    /\ UNCHANGED <<given_Y, base, nAcq, nObj>>
    /\ UNCHANGED <<ctorCalls, acqArgs, nBar>>

\* the program with a caller-supplied predicate that may write to the lists
\* it is handed
NextAlias ==
    \/ Next
    \/ \E b \in BOOLEAN, v \in Values : TerminateFunctionMutates(b, v)

SpecAlias == Init /\ [][NextAlias]_vars

\* lines 172-174: the n_trial property
n_trial == Len(Y_history)

\* ------------------------------------------------------------- properties
\* the best of a non-empty sequence of values in the configured direction
Extremum(vals, maxi) == IF maxi THEN MaxOf(vals) ELSE MinOf(vals)

\* y is strictly better than b in the configured direction
StrictlyBetter(y, b, maxi) == IF maxi THEN y > b ELSE y < b

\* the values of the initial batch, one per row of initial_Y
InitialValues == [k \in DOMAIN initial_Y |-> initial_Y[k][1]]

\* smallest index of vals holding v
FirstIndexOf(vals, v) ==
    CHOOSE j \in DOMAIN vals :
        /\ vals[j] = v
        /\ \A k \in 1..(j - 1) : vals[k] # v

\* run_optim has returned normally: by count or by the predicate's break
RunEnded == pc = "idle" /\ outcome \in {"count", "predicate"}

\* run_optim was left by an exception raised by the call `by`
RunAborted(by) == pc = "idle" /\ outcome = "raised" /\ raisedBy = by

\* C1: when a run with max_iter >= 0 has returned, the entries it added to
\* History (all of History, for a fresh optimizer) are as many as the loop
\* bodies it completed, and that number is max_iter when the predicate never
\* returned true and min(max_iter, k + 1) when it first returned true at
\* index k.
C1_HistoryLength ==
    (RunEnded /\ max_iter >= 0) =>
        /\ Len(Y_history) = base + completed
        /\ Len(X_history) = base + completed
        /\ completed = IF firstTrue = None THEN max_iter
                       ELSE Min(max_iter, firstTrue[1] + 1)

\* C1 witness: a fresh optimizer's run of max_iter 2 that the predicate ended
\* at index 0
C1_Witness ==
    /\ RunEnded
    /\ base = 0
    /\ max_iter = 2
    /\ firstTrue = Some(0)
    /\ Len(Y_history) = 1

\* C2 as stated: after a run that made at least one observation, best_value is
\* the extremum of the initial batch's values and History's values together.
C2_BestOverInitialAndHistory ==
    (RunEnded /\ Y_history # <<>>) => best_value = Some(Extremum(InitialValues \o Y_history, maximize))

\* C2 as amended: after a run best_value is the extremum of History's values
\* alone (the initial batch is never compared), and is None when History is
\* empty.
C2_BestOverHistory ==
    RunEnded =>
        IF Y_history = <<>> THEN best_value = None
        ELSE best_value = Some(Extremum(Y_history, maximize))

\* C2 witness: a run has ended with two observations, and an initial value is
\* strictly better than everything in History
C2_Witness ==
    /\ RunEnded
    /\ Len(Y_history) = 2
    /\ Y_history[1] # Y_history[2]
    /\ StrictlyBetter(Extremum(InitialValues, maximize),
                      Extremum(Y_history, maximize), maximize)

\* C3: over every step of every run, best_value once set stays set, and never
\* gets worse: it does not increase when minimizing nor decrease when
\* maximizing.
C3_BestMonotone ==
    [][best_value # None =>
          /\ best_value' # None
          /\ ~StrictlyBetter(best_value[1], best_value'[1], maximize)]_vars

\* C3 witness: in a second run, an observation worse than the best has gone
\* through the best-so-far update
C3_Witness ==
    /\ pc = "bar"
    /\ base > 0
    /\ best_value # None
    /\ StrictlyBetter(best_value[1], Y_obs, maximize)

\* C4: best_value and best_params change only when there was no best or the
\* observed value is strictly better than it; and the location kept is the
\* one of the earliest History entry that holds best_value.
C4_StrictUpdate ==
    /\ [][<<best_value, best_params>>' # <<best_value, best_params>> =>
            /\ pc = "best"
            /\ best_value = None \/ StrictlyBetter(Y_obs, best_value[1], maximize)
            /\ best_value' = Some(Y_obs)
            /\ best_params' = Some(loc)]_vars
    /\ [](best_value # None =>
            /\ best_params # None
            /\ \E j \in DOMAIN Y_history : Y_history[j] = best_value[1]
            /\ best_params[1] = X_history[FirstIndexOf(Y_history, best_value[1])])

\* C4 witness: an observation equal to the best, at another location, has gone
\* through the best-so-far update and the earlier location is kept
C4_Witness ==
    /\ pc = "bar"
    /\ best_value = Some(Y_obs)
    /\ best_params # Some(loc)
    /\ Len(Y_history) = 2
    /\ Y_history[1] = Y_history[2]

\* History, BestState and the surrogate hold exactly one observation more
\* than st, the same one in all three, and BestState is History's extremum
OneObservationMore(st) ==
    /\ Len(X_history) = Len(st[1]) + 1
    /\ Len(Y_history) = Len(st[2]) + 1
    /\ SubSeq(X_history, 1, Len(st[1])) = st[1]
    /\ SubSeq(Y_history, 1, Len(st[2])) = st[2]
    /\ gpr = append_data(st[5], X_history[Len(X_history)], Y_history[Len(Y_history)])
    /\ best_value = Some(Extremum(Y_history, maximize))
    /\ best_params = Some(X_history[FirstIndexOf(Y_history, best_value[1])])

\* C5: the predicate is called once per iteration, after the iteration's
\* observation is in History, the surrogate and BestState; it is handed the
\* index and the two full histories, the observation of that index included;
\* once it has returned true there is no further proposal or evaluation, and
\* the observation stays.
C5_PredicateAfterRecording ==
    /\ pc = "terminate" =>
          /\ OneObservationMore(snap)
          /\ X_history[Len(X_history)] = loc
          /\ Y_history[Len(Y_history)] = Y_obs
          /\ Len(Y_history) = base + i + 1
          /\ terminate_function # "None" => nTerm = i
    /\ nTerm > 0 =>
          /\ Len(termArgs[2]) = base + termArgs[1] + 1
          /\ Len(termArgs[3]) = base + termArgs[1] + 1
          /\ termArgs[2] = SubSeq(X_history, 1, Len(termArgs[2]))
          /\ termArgs[3] = SubSeq(Y_history, 1, Len(termArgs[3]))
          /\ termArgs[1] = nTerm - 1
    /\ firstTrue # None =>
          /\ pc = "idle"
          /\ outcome = "predicate"
          /\ nAcq = firstTrue[1] + 1
          /\ nObj = firstTrue[1] + 1
          /\ nTerm = firstTrue[1] + 1
          /\ termArgs = <<firstTrue[1], X_history, Y_history>>
          /\ Len(Y_history) = base + firstTrue[1] + 1

\* C5 witness: the predicate returned true at index 1 of a fresh optimizer's
\* run of max_iter 2, after returning false at index 0
C5_Witness ==
    /\ pc = "idle"
    /\ firstTrue = Some(1)
    /\ base = 0
    /\ max_iter = 2
    /\ nTerm = 2
    /\ Len(termArgs[3]) = 2

\* the run's loop body of index k (0-based) left min(History) below the
\* threshold
CrossedAt(k) == MinOf(SubSeq(Y_history, 1, base + k + 1)) < Threshold

C7_NoPartialIteration ==
    /\ \A by \in {"acq_optimizer", "objective", "append_data"} :
          RunAborted(by) =>
              /\ ObjectState = snap
              /\ Len(Y_history) = base + completed
    /\ (pc = "idle" /\ outcome # "constructed") =>
          /\ Len(X_history) = Len(Y_history)
          /\ IF Y_history = <<>>
             THEN best_value = None /\ best_params = None
             ELSE /\ best_value = Some(Extremum(Y_history, maximize))
                  /\ best_params = Some(X_history[FirstIndexOf(Y_history, best_value[1])])

\* C7 witness: the objective function raised in the second iteration of a run
C7_Witness ==
    /\ RunAborted("objective")
    /\ completed = 1
    /\ Len(Y_history) = base + 1
    /\ nAcq = 2

\* C8 as stated: when the predicate raises, History, BestState (and the
\* surrogate) hold no entry of the iteration it was called in: they are as
\* that iteration started.
C8_NoEntryOfAbortedIteration ==
    RunAborted("terminate_function") => ObjectState = snap

\* C8 as amended: when the predicate raises, the exception leaves run_optim
\* with the observation of the iteration it was called in recorded, whole, in
\* History, the surrogate and BestState (one entry more than the iteration
\* started with, the entry the predicate was handed); nothing of a later
\* iteration exists.
C8_PredicateRaisesAfterRecording ==
    RunAborted("terminate_function") =>
        /\ OneObservationMore(snap)
        /\ termArgs = <<i, X_history, Y_history>>
        /\ Len(Y_history) = base + completed + 1
        /\ nAcq = completed + 1
        /\ nObj = completed + 1

\* C8 witness: the predicate raised at index 1, after returning false at 0
C8_Witness ==
    /\ RunAborted("terminate_function")
    /\ i = 1
    /\ completed = 1
    /\ Len(Y_history) = base + 2

\* C9: a constructor call with initial values whose count differs from the
\* number of initial locations ends with ValueError, raised before the
\* surrogate is built and without any objective call, no History, BestState
\* or surrogate existing; a call with a matching count raises nothing.
C9_SizeMismatchRaises ==
    /\ (pc = "ctor_failed" /\ raisedBy = "ValueError") =>
          /\ given_Y # None
          /\ Len(given_Y[1]) # Len(initial_X)
          /\ nObj = 0
          /\ attrs = AttrsBeforeInitialY
          /\ ObjectState = <<<<>>, <<>>, None, None, NoGpr>>
    /\ (outcome = "constructed" /\ given_Y # None) =>
          /\ Len(given_Y[1]) = Len(initial_X)
          /\ initial_Y = transform_data(given_Y[1])
          /\ nObj = 0
          /\ attrs = AttrsAll
    /\ (pc \in {"idle", "ctor_failed"} /\ outcome \in {"constructed", "raised"}
          /\ given_Y # None) =>
          (pc = "ctor_failed" <=> Len(given_Y[1]) # Len(initial_X))

\* C9 witness: two initial locations and one initial value
C9_Witness ==
    /\ pc = "ctor_failed"
    /\ raisedBy = "ValueError"
    /\ Len(initial_X) = 2
    /\ given_Y # None
    /\ Len(given_Y[1]) = 1

\* C10: a failure of the progress bar does not end the run.
C10_ProgressFailureNotFatal ==
    ~RunAborted("bar")

-----------------------------------------------------------------------------
\* the name of the input-passing convention that the flag selects
Convention(unpack) == IF unpack THEN "unpacked" ELSE "packed"

\* __init__ has returned an optimizer
Constructed == pc \notin {"new", "ctor_failed"}

\* C11: the input-passing convention is selected at construction and never
\* changes afterwards, and every objective call - those of the constructor
\* that compute the initial values and the one of every iteration of every
\* run - is made with that convention, at the location it is about.
C11_OneConvention ==
    /\ [][Constructed => function_unpack' = function_unpack]_vars
    /\ [](Constructed =>
            /\ \A k \in DOMAIN ctorCalls :
                   ctorCalls[k] = <<Convention(function_unpack), initial_X[k]>>
            /\ objArg # NoArg => objArg = <<Convention(function_unpack), loc>>)

\* a second run on an optimizer that packs: the objective has been called
\* in the loop, after it was called in the constructor (initial_Y computed)
C11_Witness ==
    /\ base > 0
    /\ ~function_unpack
    /\ objArg = <<"packed", loc>>
    /\ pc = "append_data"


-----------------------------------------------------------------------------
\* the loop is between two iterations, or run_optim / __init__ has returned
IterationBoundary == pc \in {"idle", "acq_optimizer"}

\* the training set made of the initial batch followed by the observations
\* xs, ys (the surrogate holds the values as rows)
TrainingSetOf(xs, ys) ==
    [X_train |-> initial_X \o xs,
     Y_train |-> initial_Y \o [k \in DOMAIN ys |-> <<ys[k]>>]]

\* C12: at every iteration boundary - before each acquisition proposal, after
\* each completed iteration, after a run has ended by count, by predicate or
\* by an exception - the surrogate's training set is the InitialBatch followed
\* by all of History, in the order observed, index for index.
C12_TrainingSetIsInitialThenHistory ==
    IterationBoundary => gpr = TrainingSetOf(X_history, Y_history)

\* C12 witness: a run was aborted by an exception after two observations at
\* two different locations had been recorded
C12_Witness ==
    /\ pc = "idle"
    /\ outcome = "raised"
    /\ Len(X_history) = 2
    /\ X_history[1] # X_history[2]
    /\ Len(gpr.X_train) = Len(initial_X) + 2


-----------------------------------------------------------------------------
\* C13: the iterations of a run execute in increasing index order (the index
\* handed to the k-th acquisition optimizer call of a run is k - 1, and the
\* loop index only ever steps by one within a run), and the surrogate handed
\* to the optimizer for index k holds the initial batch and every observation
\* through index k - 1: those were appended to History and to the surrogate
\* before the call.
C13_ObservationBeforeNextProposal ==
    /\ [][(i' # i /\ pc # "idle") => i' = i + 1]_vars
    /\ [][nAcq' # nAcq /\ pc # "idle" =>
             /\ nAcq' = nAcq + 1
             /\ acqArgs'[3] = nAcq
             /\ Len(Y_history) = base + nAcq
             /\ Len(X_history) = base + nAcq]_vars
    /\ [](nAcq > 0 =>
             /\ acqArgs[3] = nAcq - 1
             /\ Len(Y_history) >= base + acqArgs[3]
             /\ acqArgs[1] = TrainingSetOf(SubSeq(X_history, 1, base + acqArgs[3]),
                                           SubSeq(Y_history, 1, base + acqArgs[3])))

\* C13 witness: the optimizer has been called for index 1 with a surrogate
\* that holds the observation of index 0
C13_Witness ==
    /\ pc = "objective"
    /\ nAcq = 2
    /\ acqArgs[3] = 1
    /\ acqArgs[1].X_train = initial_X \o X_history
    /\ Len(X_history) = base + 1


-----------------------------------------------------------------------------
\* the body of iteration i is done: only the predicate (if any) is left
BodyDone == pc = "terminate"

\* C14: when the body of an iteration is done, the run has made one
\* acquisition proposal, one objective evaluation and one progress
\* notification per iteration so far (i + 1 of each); the evaluation was at
\* the location the optimizer returned, unchanged; compared with the start of
\* the iteration the surrogate and History hold exactly that one observation
\* more, and BestState was replaced at most once (by that observation).
\* Completing the iteration (with or without the predicate) adds no further
\* proposal, evaluation, append, replacement or notification.
C14_OneOfEachPerIteration ==
    /\ [](BodyDone =>
            /\ nAcq = i + 1
            /\ nObj = i + 1
            /\ nBar = i + 1
            /\ acqArgs = <<snap[5], config.acq, i>>
            /\ objArg = ObjectiveArgs(function_unpack, loc)
            /\ gpr = append_data(snap[5], loc, Y_obs)
            /\ X_history = Append(snap[1], loc)
            /\ Y_history = Append(snap[2], Y_obs)
            /\ nBest \in {0, 1}
            /\ <<best_value, best_params>> =
                   IF nBest = 1 THEN <<Some(Y_obs), Some(loc)>>
                                ELSE <<snap[3], snap[4]>>)
    /\ [][completed' = completed + 1 =>
             /\ BodyDone
             /\ UNCHANGED <<nAcq, nObj, nBar, X_history, Y_history, gpr,
                            best_value, best_params>>]_vars

\* C14 witness: the second iteration of a run is done and did not replace
\* BestState, which the first one has set
C14_Witness ==
    /\ BodyDone
    /\ i = 1
    /\ nAcq = 2 /\ nObj = 2 /\ nBar = 2
    /\ nBest = 0
    /\ best_value # None
    /\ Len(Y_history) = base + 2


-----------------------------------------------------------------------------
\* one objective call per initial location, in the order of the locations
OneCallPerInitialLocation ==
    [k \in DOMAIN initial_X |-> <<Convention(function_unpack), initial_X[k]>>]

\* C15: a constructor call without initial values has evaluated the objective
\* exactly once at every initial location, in the locations' order, and holds
\* one initial value per location; a constructor call with initial values has
\* not evaluated the objective at all and holds the supplied values (in the
\* canonical shape), whose count equals the number of locations.  When the
\* objective raises at the k-th location, the calls made are the first k.
C15_InitialValues ==
    /\ outcome = "constructed" =>
          IF given_Y = None
          THEN /\ ctorCalls = OneCallPerInitialLocation
               /\ nObj = Len(initial_X)
               /\ Len(initial_Y) = Len(initial_X)
          ELSE /\ ctorCalls = <<>>
               /\ nObj = 0
               /\ Len(given_Y[1]) = Len(initial_X)
               /\ initial_Y = transform_data(given_Y[1])
    /\ pc = "ctor_failed" =>
          /\ Len(ctorCalls) = nObj
          /\ ctorCalls = SubSeq(OneCallPerInitialLocation, 1, nObj)
          /\ given_Y # None => nObj = 0

\* C15 witness: constructed without initial values from two different
\* initial locations
C15_Witness ==
    /\ outcome = "constructed"
    /\ given_Y = None
    /\ Len(ctorCalls) = 2
    /\ ctorCalls[1][2] # ctorCalls[2][2]
    /\ Len(initial_Y) = 2


-----------------------------------------------------------------------------
\* s is a prefix of t
IsPrefix(s, t) == Len(s) <= Len(t) /\ SubSeq(t, 1, Len(s)) = s

\* C16 as stated: History is append-only over every step, the predicate's
\* calls included: the location and value sequences before a step are
\* prefixes of those after it (nothing recorded is mutated, removed or
\* reordered), and the two sequences are equally long whenever the loop is
\* between iterations or run_optim has returned.
C16_HistoryAppendOnly ==
    /\ [][/\ IsPrefix(X_history, X_history')
          /\ IsPrefix(Y_history, Y_history')]_vars
    /\ [](IterationBoundary => Len(X_history) = Len(Y_history))


-----------------------------------------------------------------------------
\* no value of vals is strictly better than y in the direction maxi
NoneBetter(vals, y, maxi) ==
    \A k \in DOMAIN vals : ~StrictlyBetter(vals[k], y, maxi)

\* C17: at every iteration boundary of a constructed optimizer, BestState is
\* unset exactly when History is empty; when it is set there is one index k
\* of History with best_value = value k and best_params = location k, no
\* History value is strictly better than best_value (the initial batch plays
\* no part), and no index before k has that value.
C17_BestIsFirstExtremumOfHistory ==
    (IterationBoundary /\ Constructed) =>
        /\ best_value = None <=> Y_history = <<>>
        /\ best_params = None <=> Y_history = <<>>
        /\ best_value # None =>
              \E k \in DOMAIN Y_history :
                  /\ Y_history[k] = best_value[1]
                  /\ X_history[k] = best_params[1]
                  /\ NoneBetter(Y_history, best_value[1], maximize)
                  /\ \A j \in 1..(k - 1) : Y_history[j] # best_value[1]

\* C17 witness: two observations with the same value at two different
\* locations, the initial batch holding a strictly better value; BestState
\* is the first of the two observations
C17_Witness ==
    /\ IterationBoundary
    /\ Len(Y_history) = 2
    /\ Y_history[1] = Y_history[2]
    /\ X_history[1] # X_history[2]
    /\ best_params = Some(X_history[1])
    /\ \E k \in DOMAIN initial_Y :
           StrictlyBetter(initial_Y[k][1], best_value[1], maximize)


-----------------------------------------------------------------------------
\* run_optim is called on a constructed optimizer
RunStarts == pc = "idle" /\ Constructed

\* C18 as stated: a run_optim call starts from the History, BestState and
\* training set the earlier runs left, and n_trial is the total number of
\* completed iterations: each run adds its number of completed iterations to
\* it.  (Runs aborted by a progress failure, which is C10's defect, are left
\* out.)
C18_TrialsAreCompletedIterations ==
    /\ [][RunStarts => UNCHANGED ObjectState]_vars
    /\ []((IterationBoundary /\ Constructed /\ ~RunAborted("bar")) =>
              n_trial = base + completed)

\* C18: a run_optim call starts from the History, BestState and training set
\* the earlier runs left (they carry over and only grow); n_trial is the
\* total number of recorded observations: each run adds its completed
\* iterations, plus the one iteration that was aborted after its observation
\* was recorded, if any.  The index handed to the acquisition optimizer and
\* to the predicate counts the iterations of the current run from 0: it is
\* the number of observations recorded since the run started, not since
\* construction.
C18_RunsCarryOver ==
    /\ [][RunStarts => UNCHANGED ObjectState]_vars
    /\ [][RunStarts /\ pc' = "acq_optimizer" => i' = 0]_vars
    /\ []((IterationBoundary /\ Constructed) =>
              n_trial = base + completed +
                  (IF RunAborted("bar") \/ RunAborted("terminate_function")
                   THEN 1 ELSE 0))
    /\ [](nAcq > 0 => acqArgs[3] = Len(acqArgs[1].X_train) - Len(initial_X) - base)
    /\ [](nTerm > 0 => /\ termArgs[1] = Len(termArgs[3]) - 1 - base
                       /\ termArgs[1] = nTerm - 1)

\* C18 witness: a second run with max_iter = 1 has ended; History holds two
\* observations, more than max_iter, and the predicate was handed index 0,
\* which is not len(History) - 1
C18_Witness ==
    /\ RunEnded
    /\ base = 1
    /\ max_iter = 1
    /\ n_trial = 2
    /\ nAcq = 1
    /\ nTerm = 1
    /\ acqArgs[3] = 0
    /\ termArgs[1] = 0
    /\ Len(termArgs[3]) = 2
    /\ Len(gpr.X_train) = Len(initial_X) + 2


-----------------------------------------------------------------------------
\* what the constructor fixes: initial locations and values, direction flag,
\* input-passing convention, kernel, alpha, acquisition function and
\* acquisition optimizer, and the set of attributes the object has
ConstructionTime ==
    <<initial_X, initial_Y, maximize, function_unpack, config, attrs>>

\* C19: no step of run_optim - in a run that completes, one that the
\* predicate ends or one that an exception aborts - changes what the
\* constructor fixed; a constructed optimizer always holds the kernel, alpha,
\* acquisition function and acquisition optimizer it was constructed with.
\* A step changes at most History, BestState and the training set.
C19_ConfigurationFrame ==
    /\ [][Constructed => UNCHANGED ConstructionTime]_vars
    /\ [](Constructed => config = Configuration /\ attrs = AttrsAll)

\* C19 witness: a second run has been aborted by an exception; History,
\* BestState and the training set have changed since construction
C19_Witness ==
    /\ pc = "idle"
    /\ outcome = "raised"
    /\ base = 1
    /\ Len(Y_history) = 2
    /\ best_value # None
    /\ gpr.X_train # initial_X
    /\ config = Configuration


-----------------------------------------------------------------------------
\* the steps of one iteration, in program order
LoopSteps ==
    <<"acq_optimizer", "objective", "append_data", "history", "best", "bar",
      "terminate">>

\* control is inside run_optim's loop
Running == \E k \in DOMAIN LoopSteps : LoopSteps[k] = pc

\* the steps a run can still take at most: those of the iterations left,
\* less those of the current iteration already taken
StepsLeft ==
    (max_iter - i) * Len(LoopSteps)
        - (CHOOSE k \in DOMAIN LoopSteps : LoopSteps[k] = pc)

\* C20: a run always ends.  While control is in the loop a step can be taken
\* (every call returns or raises), every step either leaves run_optim or
\* lowers the positive number of steps left, and a raising call leaves
\* run_optim at once: no call is made again.  The run makes at most max_iter
\* acquisition proposals and at most max_iter objective evaluations (one of
\* each per index started), and none of either when max_iter <= 0, where it
\* ends by count.
C20_RunEndsWithinMaxIter ==
    /\ [](Running => ENABLED Next)
    /\ [](Running => i < max_iter /\ StepsLeft >= 0)
    /\ [][Running => \/ pc' = "idle"
                     \/ Running' /\ StepsLeft' < StepsLeft]_vars
    /\ [][(Running /\ outcome' = "raised") => pc' = "idle"]_vars
    /\ [](Running => /\ nAcq \in {i, i + 1}
                     /\ nObj \in {i, i + 1}
                     /\ nObj <= nAcq)
    /\ []((Constructed /\ outcome # "constructed") =>
             /\ nAcq <= Max(max_iter, 0)
             /\ nObj <= Max(max_iter, 0)
             /\ nObj <= nAcq
             /\ max_iter <= 0 => (nAcq = 0 /\ nObj = 0 /\ outcome = "count"
                                    /\ pc = "idle" /\ n_trial = base))

\* C20 witness: a run with max_iter = 2 has ended by count after two
\* proposals and two evaluations
C20_Witness ==
    /\ RunEnded
    /\ outcome = "count"
    /\ max_iter = MaxIter
    /\ nAcq = max_iter
    /\ nObj = max_iter
    /\ completed = max_iter

====
